---- MODULE Spec2Model ----
(***************************************************************************)
(* State-machine model of the language-learning application: the live      *)
(* voice tutor screen (LiveChat: session lifecycle, playback clock,        *)
(* transcript aggregation, session history, message translation), the      *)
(* culture hub (CultureHub), the visual scan (VisualScan), the API-key     *)
(* lookup (getGeminiKey) and the row-level rules of the profiles table.    *)
(*                                                                         *)
(* Concurrency model (spec section 5): one logical thread; UI events,      *)
(* animation-frame callbacks and channel callbacks interleave, and every   *)
(* `await` is a suspension point at which any other callback may run.      *)
(* Continuations of `await decodeAudioData(...)` resume in FIFO order.     *)
(* A handler reads React state from the render it was created in: the      *)
(* channel callbacks of a session call the stopSession of the render in    *)
(* which startSession was invoked.                                         *)
(***************************************************************************)
EXTENDS Integers, Sequences, FiniteSets, TLC

\* ---------------------------------------------------------------- bounds
MaxStarts == 2          \* startSession invocations in one behaviour
MaxMsgs == 3            \* server messages delivered in one behaviour
MaxClock == 2           \* largest value an output-context clock reaches
MaxTranscript == 2      \* visible transcript length at which typing stops
MaxTranslateCalls == 2  \* outbound translation requests in one behaviour
MaxFetches == 2         \* culture requests issued in one behaviour
MaxPlays == 2           \* text-to-speech requests issued in one behaviour
MaxScans == 2           \* image-analysis requests issued in one behaviour
MaxResultTranslations == 2  \* scan-result translation requests in one behaviour
MaxAlerts == 2          \* alerts shown in one behaviour
MaxKeyCalls == 2        \* getGeminiKey calls observed in one behaviour
MaxUsage == 2           \* largest usage_count a row reaches
MaxBlock == 2           \* samples in one capture block
MaxCameraStarts == 2    \* startCamera invocations in one behaviour

Sessions == 1 .. MaxStarts
Durations == {1, 2}
Levels == {1}
KeyMinLen == 10

Max(a, b) == IF a >= b THEN a ELSE b

\* ------------------------------------------------------------ data model
NoText == << >>
NoMsg == [audio |-> 0, inT |-> NoText, outT |-> NoText, tc |-> FALSE, intr |-> FALSE]

\* Server messages: any of the five optional parts of one serverContent.
Messages ==
    { [NoMsg EXCEPT !.audio = d] : d \in Durations }
    \cup { [NoMsg EXCEPT !.inT = <<"a">>],
           [NoMsg EXCEPT !.outT = <<"b">>],
           [NoMsg EXCEPT !.tc = TRUE],
           [NoMsg EXCEPT !.intr = TRUE],
           [NoMsg EXCEPT !.audio = 1, !.intr = TRUE],
           [NoMsg EXCEPT !.audio = 1, !.outT = <<"c">>],
           [NoMsg EXCEPT !.inT = <<"d">>, !.tc = TRUE] }

UserTexts == { <<"u">> }

GREETINGS == <<"g">>

Message(role, text) == [role |-> role, text |-> text, translation |-> NoText]

NullKey == [src |-> "null", len |-> 0]

\* values of one key source: absent, the empty string, a string of exactly
\* the threshold length, a longer one
KeyLens == { 0, KeyMinLen, KeyMinLen + 1 }

KeyValues(src) == { NullKey } \cup { [src |-> src, len |-> n] : n \in KeyLens }

\* CultureHub: cultureData, error and sources; data and sources carry the
\* request whose response they were taken from
NoData == [from |-> 0, shape |-> "null"]
NoError == "null"
CredentialMissing == "API Key nao configurada"
FetchFailed == "Houve um problema ao buscar dados"
NoSources == << >>

\* responses of the culture request: rejected, or resolved with grounding
\* chunks absent, present without a web chunk, or present with one, and a
\* text that is a JSON object, is empty, or does not parse
FetchResponses ==
    { [ok |-> FALSE, chunks |-> "absent", text |-> "none"] }
    \cup [ok : {TRUE}, chunks : {"absent", "noweb", "web"},
          text : {"json", "empty", "notjson"}]

Expressions == 1 .. 2

\* VisualScan: image, result and translation
NoImage == "null"
NoResult == [kind |-> "null", from |-> 0]
Images == { "img" }

\* Capture: a float sample is the numerator n of n / (FullScale * SampleScale),
\* so that sample * 32768 = n / SampleScale; every such value with
\* |n| <= FullScale * SampleScale is a float32 in [-1, 1]
FullScale == 32768
SampleScale == 4
One == FullScale * SampleScale

\* samples around zero, around one PCM step, at half scale and at full scale
Samples ==
    { -One, -One + 1, -(One \div 2), -5, -4, -3, -1, 0, 1, 3, 4, 5,
      One \div 2, One - 4, One - 3, One - 1, One }

Blocks == UNION { [1 .. n -> Samples] : n \in 1 .. MaxBlock }

\* public.profiles: users known to auth.users; 0 is the anonymous caller
\* (auth.uid() is NULL)
Users == 0 .. 2
AuthUsers == Users \ {0}

\* -------------------------------------------------------------- variables
VARIABLES
    \* React state of LiveChat
    isActive, isConnecting, transcription, pastSessions, isTranslatingIdx,
    audioLevel,
    \* refs of LiveChat
    currentInputRef, currentOutputRef, sessionPromiseRef, audioContextInRef,
    audioContextOutRef, nextStartTimeRef, sourcesRef, analyzerRef,
    animationFrameRef,
    \* per startSession invocation: position, captured render, resources
    startPc, startClosure, channel, closeRequested, ctxInState, ctxOutState,
    currentTime, frameScheduled,
    \* playback nodes, suspended message callbacks, translation requests
    nodes, pendingDecode, translateInFlight, translateCalls,
    \* environment: key sources, alerts shown; the latest invocation of a
    \* model-calling action and whether getGeminiKey had a key for it
    localKey, viteKey, processKey, alerts, lastCall,
    \* history variables used to state the properties
    arrivals, playLog, cleanRun, clockAhead, arrivedInput, arrivedOutput,
    stopStreak, staleDecodes,
    \* release step of stopSession that fails, and how the last call ended;
    \* the start requests that were connecting when stopSession was last
    \* called (kept until the step after they stop connecting)
    fault, stopOutcome, faultHit, cancelledStarts,
    \* React state of CultureHub, its requests in flight and request counts
    cultureData, isLoading, error, sources, playingAudioIdx,
    fetchInFlight, ttsInFlight, ttsPlaying, fetchCalls, ttsCalls,
    \* React state of VisualScan, its requests in flight and request counts
    image, result, isScanning, translation, isTranslating,
    scanInFlight, resultTransInFlight, scanCalls, resultTransCalls,
    \* the last getGeminiKey call: its result and the number of calls
    resolvedKey, keyCalls,
    \* public.profiles, what each user has read, created and modified, and
    \* the last statement a policy or a constraint rejected
    profiles, seen, touched, lastDenied,
    \* the last capture block handed to createBlob and the PCM values sent
    lastBlock, sentPcm,
    \* camera of VisualScan: the view flag, the stream handle, the streams
    \* acquired, the startCamera calls awaiting the device, their number
    showCamera, streamRef, camStreams, camPending, camCalls

reactVars == << isActive, isConnecting, transcription, pastSessions,
                isTranslatingIdx, audioLevel >>
refVars == << currentInputRef, currentOutputRef, sessionPromiseRef,
              audioContextInRef, audioContextOutRef, nextStartTimeRef,
              sourcesRef, analyzerRef, animationFrameRef >>
sessVars == << startPc, startClosure, channel, closeRequested, ctxInState,
               ctxOutState, currentTime, frameScheduled >>
ioVars == << nodes, pendingDecode, translateInFlight, translateCalls >>
envVars == << localKey, viteKey, processKey, alerts, fault, lastCall >>
histVars == << arrivals, playLog, cleanRun, clockAhead, arrivedInput,
               arrivedOutput, staleDecodes >>
hubVars == << cultureData, isLoading, error, sources, playingAudioIdx,
              fetchInFlight, ttsInFlight, ttsPlaying, fetchCalls, ttsCalls >>
scanVars == << image, result, isScanning, translation, isTranslating,
               scanInFlight, resultTransInFlight, scanCalls, resultTransCalls >>
keyVars == << resolvedKey, keyCalls >>
dbVars == << profiles, seen, touched, lastDenied >>
capVars == << lastBlock, sentPcm >>
camVars == << showCamera, streamRef, camStreams, camPending, camCalls >>
stopVars == << stopStreak, stopOutcome, faultHit, cancelledStarts >>
liveVars == << reactVars, refVars, sessVars, ioVars, histVars, stopVars >>
vars == << reactVars, refVars, sessVars, ioVars, envVars, histVars, stopVars,
           hubVars, scanVars, keyVars, dbVars, capVars, camVars >>

\* ------------------------------------------------------------ key lookup
KeyOk(key) == key # NullKey /\ key.len > KeyMinLen

getGeminiKey_EnvFirst(l, v, p) ==
    IF KeyOk(v) THEN v
    ELSE IF KeyOk(l) THEN l
    ELSE IF KeyOk(p) THEN p
    ELSE NullKey

\* lines 271-286: the first of the three sources that is present and longer
\* than 10 characters, else null
getGeminiKey(l, v, p) ==
    IF KeyOk(l) THEN l
    ELSE IF KeyOk(v) THEN v
    ELSE IF KeyOk(p) THEN p
    ELSE NullKey

apiKey == getGeminiKey(localKey, viteKey, processKey)

NoCall == [action |-> "none", keyed |-> FALSE]

\* an invocation of a model-calling action that got past its entry guard
Called(action) == lastCall' = [action |-> action, keyed |-> apiKey # NullKey]

\* ------------------------------------------------- playback clock (pure)
ScheduleFloor_ClockOnly(cursor, now) == now

\* line 501: nextStartTimeRef.current = Math.max(nextStartTimeRef.current, ctx.currentTime)
ScheduleFloor(cursor, now) == Max(cursor, now)

AdvanceCursor_Drift(cursor, dur) == cursor + dur + 1

\* line 508: nextStartTimeRef.current += audioBuffer.duration
AdvanceCursor(cursor, dur) == cursor + dur

CursorAfterInterrupt_Kept(cursor) == cursor

\* line 534: nextStartTimeRef.current = 0
CursorAfterInterrupt(cursor) == 0

ClearSources_Kept(srcs) == srcs

\* lines 533 and 580: sourcesRef.current.clear()
ClearSources(srcs) == {}

\* lines 532 and 579: every node of the set is stopped
StopNodes(nds, srcs) ==
    [n \in DOMAIN nds |->
        IF n \in srcs /\ nds[n].state = "scheduled"
        THEN [nds[n] EXCEPT !.state = "stopped"]
        ELSE nds[n]]

\* lines 503-509: a one-shot node created on the callback's own context
NewNode(k, when, dur) == [ctx |-> k, when |-> when, dur |-> dur, state |-> "scheduled"]

\* --------------------------------------------- transcript aggregator (pure)
\* lines 512 and 515: buffer += fragment.text || ''
AppendFragment(buf, frag) == buf \o frag

\* lines 521-527: user message first, tutor message second, each if non-empty
TurnMessages(uText, tText) ==
    (IF uText # NoText THEN << Message("user", uText) >> ELSE << >>)
    \o (IF tText # NoText THEN << Message("tutor", tText) >> ELSE << >>)

\* lines 556-564: the log is prepended when the transcript has more than one message
SnapshotHistory(tr, past) ==
    IF Len(tr) > 1
    THEN << [messages |-> tr, language |-> "lang"] >> \o past
    ELSE past

ClosureTranscription_Current(captured, current) == current

\* lines 537-538 and 552: the callbacks of a session call the stopSession of the
\* render in which startSession ran, which sees that render's transcription
ClosureTranscription(captured, current) == captured

\* line 440: if (isActive || isConnecting) return
startSessionAccepts(active, connecting) == ~(active \/ connecting)

translateMessageAccepts_NoMarker(tr, idx, translating) ==
    /\ idx \in 1 .. Len(tr)
    /\ tr[idx].role = "tutor"
    /\ tr[idx].translation = NoText

\* lines 415-416: the message exists, is a tutor message without translation,
\* and no translation is in progress
translateMessageAccepts(tr, idx, translating) ==
    /\ idx \in 1 .. Len(tr)
    /\ tr[idx].role = "tutor"
    /\ tr[idx].translation = NoText
    /\ translating = 0

\* line 430: prev.map((m, i) => i === idx ? { ...m, translation } : m)
SetTranslation(tr, idx, text) ==
    [i \in DOMAIN tr |-> IF i = idx THEN [tr[i] EXCEPT !.translation = text] ELSE tr[i]]

\* ------------------------------------------------------------ stopSession
\* the release steps of stopSession that call into the platform, in code order
ReleaseSteps == << "channelClose", "ctxInClose", "ctxOutClose", "nodeStop" >>

ReleaseFaults == { "none" } \cup { ReleaseSteps[i] : i \in DOMAIN ReleaseSteps }

Guarded_NodeStopBare(step) == step # "nodeStop"

\* line 568: try { session.close() } catch; lines 572 and 576: close().catch;
\* line 579: try { s.stop() } catch
Guarded(step) == step \in { "channelClose", "ctxInClose", "ctxOutClose", "nodeStop" }

\* the failing platform call is reached by this stopSession call
FaultApplies(step) ==
    /\ fault = step
    /\ CASE step = "channelClose" -> sessionPromiseRef # 0
         [] step = "ctxInClose" ->
               audioContextInRef # 0 /\ ctxInState[audioContextInRef] # "closed"
         [] step = "ctxOutClose" ->
               audioContextOutRef # 0 /\ ctxOutState[audioContextOutRef] # "closed"
         [] step = "nodeStop" -> sourcesRef # {}
         [] OTHER -> FALSE

\* s.stop() is the one release call made synchronously inside stopSession: an
\* exception it raised outside a try would end stopSession at line 579
StopThrows == FaultApplies("nodeStop") /\ ~Guarded("nodeStop")

\* a failure of a release call made from a promise callback (line 568) or
\* reported by a promise (lines 572, 576) that nothing handles
StopUnhandled ==
    \E step \in { "channelClose", "ctxInClose", "ctxOutClose" } :
        FaultApplies(step) /\ ~Guarded(step)

\* the Set is iterated in insertion order: the node whose stop() fails is the first
FirstSource(srcs) == CHOOSE n \in srcs : \A o \in srcs : n <= o

\* line 579 under the fault: the failing node stays scheduled; the nodes
\* after it are stopped unless the exception left the loop
StopNodesFaulty(nds, srcs) ==
    IF StopThrows THEN nds
    ELSE [n \in DOMAIN nds |->
            IF n = FirstSource(srcs) THEN nds[n] ELSE StopNodes(nds, srcs)[n]]

\* the start requests that await the microphone (line 453) or the open
\* event of their channel (line 480)
Connecting ==
    { k \in Sessions : startPc[k] = "awaitMic" \/ channel[k] = "connecting" }

\* lines 555-587, run with the transcription `tr` its render sees
StopSession(tr) ==
    /\ pastSessions' = SnapshotHistory(tr, pastSessions)
    /\ isActive' = FALSE
    /\ isConnecting' = FALSE
    /\ closeRequested' =
         IF sessionPromiseRef # 0 /\ ~FaultApplies("channelClose")
         THEN [closeRequested EXCEPT ![sessionPromiseRef] = TRUE]
         ELSE closeRequested
    /\ sessionPromiseRef' = 0
    /\ ctxInState' =
         IF audioContextInRef # 0 /\ ctxInState[audioContextInRef] # "closed"
            /\ ~FaultApplies("ctxInClose")
         THEN [ctxInState EXCEPT ![audioContextInRef] = "closing"]
         ELSE ctxInState
    /\ audioContextInRef' = 0
    /\ ctxOutState' =
         IF audioContextOutRef # 0 /\ ctxOutState[audioContextOutRef] # "closed"
            /\ ~FaultApplies("ctxOutClose")
         THEN [ctxOutState EXCEPT ![audioContextOutRef] = "closing"]
         ELSE ctxOutState
    /\ audioContextOutRef' = 0
    /\ nodes' = IF FaultApplies("nodeStop")
                THEN StopNodesFaulty(nodes, sourcesRef)
                ELSE StopNodes(nodes, sourcesRef)
    /\ IF StopThrows
       THEN UNCHANGED << sourcesRef, frameScheduled, animationFrameRef,
                         analyzerRef, audioLevel >>
       ELSE /\ sourcesRef' = ClearSources(sourcesRef)
            /\ frameScheduled' =
                 IF animationFrameRef # 0
                 THEN [frameScheduled EXCEPT ![animationFrameRef] = FALSE]
                 ELSE frameScheduled
            /\ animationFrameRef' = 0
            /\ analyzerRef' = 0
            /\ audioLevel' = 0
    /\ stopOutcome' = IF StopThrows THEN "threw"
                      ELSE IF StopUnhandled THEN "unhandled" ELSE "returned"
    /\ faultHit' = \E i \in DOMAIN ReleaseSteps : FaultApplies(ReleaseSteps[i])
    /\ staleDecodes' = Len(pendingDecode)
    /\ cancelledStarts' = Connecting

\* what stopSession leaves alone
StopSessionFrame ==
    UNCHANGED << transcription, isTranslatingIdx, currentInputRef,
                 currentOutputRef, nextStartTimeRef, startClosure, currentTime,
                 pendingDecode, translateInFlight, translateCalls, envVars,
                 arrivals, playLog, cleanRun, clockAhead, arrivedInput,
                 arrivedOutput >>

\* consecutive stopSession calls so far, counted up to two
StopCounted ==
    /\ stopStreak' = IF stopStreak < 2 THEN stopStreak + 1 ELSE 2
    /\ UNCHANGED << hubVars, scanVars, keyVars, dbVars, capVars, camVars >>

\* a LiveChat step that is not a stopSession call
NotAStop ==
    /\ stopStreak' = 0 /\ stopOutcome' = "none" /\ faultHit' = FALSE
    /\ cancelledStarts' = cancelledStarts \cap Connecting
    /\ UNCHANGED << hubVars, scanVars, keyVars, dbVars, capVars, camVars >>

\* ----------------------------------------------------------------- Init
TypicalKey == [src |-> "local", len |-> 12]

\* useState/useRef initial values of the three screens, an empty table
InitState ==
    /\ isActive = FALSE /\ isConnecting = FALSE
    /\ transcription = << >> /\ pastSessions = << >>
    /\ isTranslatingIdx = 0 /\ audioLevel = 0
    /\ currentInputRef = NoText /\ currentOutputRef = NoText
    /\ sessionPromiseRef = 0 /\ audioContextInRef = 0 /\ audioContextOutRef = 0
    /\ nextStartTimeRef = 0 /\ sourcesRef = {} /\ analyzerRef = 0
    /\ animationFrameRef = 0
    /\ startPc = [k \in Sessions |-> "unused"]
    /\ startClosure = [k \in Sessions |-> << >>]
    /\ channel = [k \in Sessions |-> "none"]
    /\ closeRequested = [k \in Sessions |-> FALSE]
    /\ ctxInState = [k \in Sessions |-> "none"]
    /\ ctxOutState = [k \in Sessions |-> "none"]
    /\ currentTime = [k \in Sessions |-> 0]
    /\ frameScheduled = [k \in Sessions |-> FALSE]
    /\ nodes = << >> /\ pendingDecode = << >>
    /\ translateInFlight = << >> /\ translateCalls = 0
    /\ alerts = 0 /\ lastCall = NoCall
    /\ arrivals = 0 /\ playLog = << >> /\ cleanRun = TRUE /\ clockAhead = FALSE
    /\ arrivedInput = NoText /\ arrivedOutput = NoText
    /\ stopStreak = 0 /\ staleDecodes = 0
    /\ stopOutcome = "none" /\ faultHit = FALSE /\ cancelledStarts = {}
    /\ cultureData = NoData /\ isLoading = FALSE /\ error = NoError
    /\ sources = NoSources /\ playingAudioIdx = 0
    /\ fetchInFlight = {} /\ ttsInFlight = {} /\ ttsPlaying = FALSE
    /\ fetchCalls = 0 /\ ttsCalls = 0
    /\ image = NoImage /\ result = NoResult /\ isScanning = FALSE
    /\ translation = NoResult /\ isTranslating = FALSE
    /\ scanInFlight = {} /\ resultTransInFlight = {}
    /\ scanCalls = 0 /\ resultTransCalls = 0
    /\ resolvedKey = NullKey /\ keyCalls = 0
    /\ profiles = {} /\ seen = [u \in Users |-> {}] /\ touched = {}
    /\ lastDenied = [by |-> 0, id |-> 0]
    /\ lastBlock = << >> /\ sentPcm = << >>
    /\ showCamera = FALSE /\ streamRef = 0
    /\ camStreams = [c \in 1 .. MaxCameraStarts |-> "none"]
    /\ camPending = {} /\ camCalls = 0

\* a key in the browser store or none, no environment key, no failing call
Init ==
    /\ InitState
    /\ localKey \in {NullKey, TypicalKey}
    /\ viteKey = NullKey /\ processKey = NullKey
    /\ fault = "none"

\* ---------------------------------------------------------- startSession
\* lines 439-452 up to `await getUserMedia`; the button of line 631 is
\* rendered only while the displayed transcript is empty (line 624)
StartSession(k) ==
    /\ NotAStop
    /\ startPc[k] = "unused"
    /\ \A j \in Sessions : j < k => startPc[j] # "unused"
    /\ transcription = << >>
    /\ startSessionAccepts(isActive, isConnecting)
    /\ transcription' = << >>
    /\ startClosure' = [startClosure EXCEPT ![k] = transcription]
    /\ Called("startSession")
    /\ IF apiKey = NullKey
       THEN /\ alerts' = alerts + 1
            /\ isConnecting' = FALSE
            /\ startPc' = [startPc EXCEPT ![k] = "returned"]
       ELSE /\ alerts' = alerts
            /\ isConnecting' = TRUE
            /\ startPc' = [startPc EXCEPT ![k] = "awaitMic"]
    /\ UNCHANGED << isActive, pastSessions, isTranslatingIdx, audioLevel,
                    refVars, channel, closeRequested, ctxInState, ctxOutState,
                    currentTime, frameScheduled, ioVars, localKey, viteKey,
                    processKey, fault, histVars >>

\* lines 453-551: the microphone was granted; contexts, analyser, metering
\* loop (first updateLevel call) and channel are created
MicGranted(k, lvl) ==
    /\ NotAStop
    /\ startPc[k] = "awaitMic"
    /\ startPc' = [startPc EXCEPT ![k] = "returned"]
    /\ ctxInState' = [ctxInState EXCEPT ![k] = "running"]
    /\ ctxOutState' = [ctxOutState EXCEPT ![k] = "running"]
    /\ audioContextInRef' = k
    /\ audioContextOutRef' = k
    /\ nextStartTimeRef' = 0
    /\ analyzerRef' = k
    /\ audioLevel' = lvl
    /\ animationFrameRef' = k
    /\ frameScheduled' = [frameScheduled EXCEPT ![k] = TRUE]
    /\ channel' = [channel EXCEPT ![k] = "connecting"]
    /\ sessionPromiseRef' = k
    /\ playLog' = << >>
    /\ cleanRun' = (pendingDecode = << >>)
    /\ clockAhead' = FALSE
    /\ UNCHANGED << isActive, isConnecting, transcription, pastSessions,
                    isTranslatingIdx, currentInputRef, currentOutputRef,
                    sourcesRef, startClosure, closeRequested, currentTime,
                    ioVars, envVars, arrivals, arrivedInput, arrivedOutput,
                    staleDecodes >>

\* line 552: getUserMedia rejected; catch (err) { stopSession(); }
MicDenied(k) ==
    /\ StopCounted
    /\ startPc[k] = "awaitMic"
    /\ startPc' = [startPc EXCEPT ![k] = "returned"]
    /\ StopSession(ClosureTranscription(startClosure[k], transcription))
    /\ StopSessionFrame
    /\ UNCHANGED channel

\* lines 467-474: one animation frame of the metering loop
UpdateLevel(k, lvl) ==
    /\ NotAStop
    /\ frameScheduled[k]
    /\ IF analyzerRef = 0
       THEN /\ frameScheduled' = [frameScheduled EXCEPT ![k] = FALSE]
            /\ UNCHANGED << audioLevel, animationFrameRef >>
       ELSE /\ audioLevel' = lvl
            /\ animationFrameRef' = k
            /\ UNCHANGED frameScheduled
    /\ UNCHANGED << isActive, isConnecting, transcription, pastSessions,
                    isTranslatingIdx, currentInputRef, currentOutputRef,
                    sessionPromiseRef, audioContextInRef, audioContextOutRef,
                    nextStartTimeRef, sourcesRef, analyzerRef, startPc,
                    startClosure, channel, closeRequested, ctxInState,
                    ctxOutState, currentTime, ioVars, envVars, histVars >>

OpenFlags_ActiveOnly(active, connecting) ==
    [active |-> TRUE, connecting |-> connecting]

\* lines 483-484: setIsActive(true); setIsConnecting(false)
OpenFlags(active, connecting) == [active |-> TRUE, connecting |-> FALSE]

\* lines 480-496: the open event of session k's channel
ChannelOpen(k) ==
    /\ NotAStop
    /\ channel[k] = "connecting"
    /\ channel' = [channel EXCEPT ![k] = "open"]
    /\ isActive' = OpenFlags(isActive, isConnecting).active
    /\ isConnecting' = OpenFlags(isActive, isConnecting).connecting
    /\ transcription' = << Message("tutor", GREETINGS) >>
    /\ UNCHANGED << pastSessions, isTranslatingIdx, audioLevel, refVars,
                    startPc, startClosure, closeRequested, ctxInState,
                    ctxOutState, currentTime, frameScheduled, ioVars, envVars,
                    histVars >>

\* line 538: onerror: () => stopSession()
ChannelError(k) ==
    /\ StopCounted
    /\ channel[k] \in {"connecting", "open"}
    /\ channel' = [channel EXCEPT ![k] = "errored"]
    /\ StopSession(ClosureTranscription(startClosure[k], transcription))
    /\ StopSessionFrame
    /\ UNCHANGED startPc

\* line 537: onclose: () => stopSession(); remote close, or the close that
\* stopSession asked for (line 568)
ChannelClose(k) ==
    /\ StopCounted
    /\ channel[k] \in {"open", "errored"}
    /\ channel' = [channel EXCEPT ![k] = "closed"]
    /\ StopSession(ClosureTranscription(startClosure[k], transcription))
    /\ StopSessionFrame
    /\ UNCHANGED startPc

\* line 678: the stop button, rendered while active or connecting (line 677),
\* calls the stopSession of the current render
StopClick ==
    /\ StopCounted
    /\ isActive \/ isConnecting
    /\ StopSession(transcription)
    /\ StopSessionFrame
    /\ UNCHANGED << startPc, channel >>

\* ------------------------------------------------------------- onmessage
\* lines 511-535: the part of the message callback after the audio branch,
\* entered with the cursor, source set, nodes and play log the audio branch left.
\* `sync` tells a callback that ran without suspending from a resumed one.
HandleRest(m, cursor, srcs, nds, log, sync) ==
    LET uText == AppendFragment(currentInputRef, m.inT)
        tText == AppendFragment(currentOutputRef, m.outT)
        inSeen == IF sync THEN arrivedInput \o m.inT ELSE arrivedInput
        outSeen == IF sync THEN arrivedOutput \o m.outT ELSE arrivedOutput
    IN  /\ currentInputRef' = IF m.tc THEN NoText ELSE uText
        /\ currentOutputRef' = IF m.tc THEN NoText ELSE tText
        /\ transcription' =
             IF m.tc THEN transcription \o TurnMessages(uText, tText)
             ELSE transcription
        /\ arrivedInput' = IF m.tc THEN NoText ELSE inSeen
        /\ arrivedOutput' = IF m.tc THEN NoText ELSE outSeen
        /\ IF m.intr
           THEN /\ nodes' = StopNodes(nds, srcs)
                /\ sourcesRef' = ClearSources(srcs)
                /\ nextStartTimeRef' = CursorAfterInterrupt(cursor)
                /\ playLog' = << >>
                /\ cleanRun' = FALSE
                /\ clockAhead' = FALSE
           ELSE /\ nodes' = nds
                /\ sourcesRef' = srcs
                /\ nextStartTimeRef' = cursor
                /\ playLog' = log
                /\ UNCHANGED << cleanRun, clockAhead >>

\* line 499: base64Audio && audioCtxOut.state !== 'closed'
AudioAccepted(m, k) == m.audio > 0 /\ ctxOutState[k] # "closed"

\* lines 497-502: a message of session k arrives; with audio the callback
\* raises the cursor to the clock and suspends at `await decodeAudioData`,
\* without audio it runs to its end
OnMessage(k, m) ==
    /\ NotAStop
    /\ channel[k] = "open"
    /\ arrivals < MaxMsgs
    /\ arrivals' = arrivals + 1
    /\ IF AudioAccepted(m, k)
       THEN /\ nextStartTimeRef' = ScheduleFloor(nextStartTimeRef, currentTime[k])
            /\ pendingDecode' = Append(pendingDecode,
                  [sess |-> k, msg |-> m, seq |-> arrivals + 1,
                   floor |-> ScheduleFloor(nextStartTimeRef, currentTime[k]),
                   behind |-> Len(pendingDecode)])
            /\ clockAhead' = (clockAhead \/ currentTime[k] > nextStartTimeRef)
            /\ arrivedInput' = arrivedInput \o m.inT
            /\ arrivedOutput' = arrivedOutput \o m.outT
            /\ UNCHANGED << transcription, currentInputRef, currentOutputRef,
                            sourcesRef, nodes, playLog, cleanRun, staleDecodes >>
       ELSE /\ HandleRest(m, nextStartTimeRef, sourcesRef, nodes, playLog, TRUE)
            /\ staleDecodes' = IF m.intr THEN Len(pendingDecode) ELSE staleDecodes
            /\ UNCHANGED pendingDecode
    /\ UNCHANGED << isActive, isConnecting, pastSessions, isTranslatingIdx,
                    audioLevel, sessionPromiseRef, audioContextInRef,
                    audioContextOutRef, analyzerRef, animationFrameRef,
                    sessVars, translateInFlight, translateCalls, envVars >>

\* lines 503-535: the oldest suspended callback resumes: the node is created,
\* started at the cursor and added to the set, the cursor advances, and the
\* rest of the callback runs
DecodeResume ==
    /\ NotAStop
    /\ pendingDecode # << >>
    /\ LET p == Head(pendingDecode)
           id == Len(nodes) + 1
           when == nextStartTimeRef
       IN  /\ pendingDecode' = Tail(pendingDecode)
           /\ staleDecodes' = IF p.msg.intr THEN Len(pendingDecode) - 1
                              ELSE Max(staleDecodes - 1, 0)
           /\ HandleRest(p.msg,
                         AdvanceCursor(nextStartTimeRef, p.msg.audio),
                         sourcesRef \cup {id},
                         Append(nodes, NewNode(p.sess, when, p.msg.audio)),
                         Append(playLog, [seq |-> p.seq, when |-> when,
                                          dur |-> p.msg.audio, floor |-> p.floor,
                                          behind |-> p.behind]),
                         FALSE)
    /\ UNCHANGED << isActive, isConnecting, pastSessions, isTranslatingIdx,
                    audioLevel, sessionPromiseRef, audioContextInRef,
                    audioContextOutRef, analyzerRef, animationFrameRef,
                    sessVars, translateInFlight, translateCalls, envVars,
                    arrivals >>

\* line 506: the 'ended' event of a node (played to its end, or stopped)
SourceEnded(n) ==
    /\ NotAStop
    /\ n \in DOMAIN nodes
    /\ \/ nodes[n].state = "stopped"
       \/ /\ nodes[n].state = "scheduled"
          /\ currentTime[nodes[n].ctx] >= nodes[n].when + nodes[n].dur
    /\ nodes' = [nodes EXCEPT ![n].state = "ended"]
    /\ sourcesRef' = sourcesRef \ {n}
    /\ UNCHANGED << reactVars, currentInputRef, currentOutputRef,
                    sessionPromiseRef, audioContextInRef, audioContextOutRef,
                    nextStartTimeRef, analyzerRef, animationFrameRef, sessVars,
                    pendingDecode, translateInFlight, translateCalls, envVars,
                    histVars >>

\* the output clock of a context that is not closed advances
Tick(k) ==
    /\ NotAStop
    /\ ctxOutState[k] \in {"running", "closing"}
    /\ currentTime[k] < MaxClock
    /\ currentTime' = [currentTime EXCEPT ![k] = @ + 1]
    /\ UNCHANGED << reactVars, refVars, startPc, startClosure, channel,
                    closeRequested, ctxInState, ctxOutState, frameScheduled,
                    ioVars, envVars, histVars >>

\* lines 572 and 576: the promises of close() settle
ContextsClosed(k) ==
    /\ NotAStop
    /\ ctxInState[k] = "closing" \/ ctxOutState[k] = "closing"
    /\ ctxInState' = [ctxInState EXCEPT ![k] = IF @ = "closing" THEN "closed" ELSE @]
    /\ ctxOutState' = [ctxOutState EXCEPT ![k] = IF @ = "closing" THEN "closed" ELSE @]
    /\ UNCHANGED << reactVars, refVars, startPc, startClosure, channel,
                    closeRequested, currentTime, frameScheduled, ioVars,
                    envVars, histVars >>

\* ---------------------------------------------------------------- capture
\* the integer part of n / SampleScale, rounded toward zero (ToNumber, then
\* the truncation step of the typed-array store)
Truncate(n) == IF n >= 0 THEN n \div SampleScale ELSE -((-n) \div SampleScale)

\* an Int16Array element store: the integer modulo 2^16, read back as signed
ToInt16(x) == ((x + FullScale) % (2 * FullScale)) - FullScale

\* lines 399-401: int16[i] = data[i] * 32768, for every sample of the block
createBlob(data) == [i \in DOMAIN data |-> ToInt16(Truncate(data[i]))]

\* lines 487-492: one block of the script processor installed by onopen of
\* session k is converted and sent on that session's channel
AudioProcess(k, data) ==
    /\ channel[k] = "open" /\ ctxInState[k] = "running"
    /\ lastBlock' = data
    /\ sentPcm' = createBlob(data)
    /\ UNCHANGED << liveVars, envVars, hubVars, scanVars, keyVars, dbVars,
                    camVars >>

\* ------------------------------------------------ text input, translation
\* lines 405-412; the input is disabled while connecting (line 683)
HandleTextResponse(text) ==
    /\ NotAStop
    /\ ~isConnecting
    /\ Len(transcription) < MaxTranscript
    /\ transcription' = Append(transcription, Message("user", text))
    /\ UNCHANGED << isActive, isConnecting, pastSessions, isTranslatingIdx,
                    audioLevel, refVars, sessVars, ioVars, envVars, histVars >>

\* lines 414-426: the request is issued and the callback suspends; without a
\* key the marker is set and reset in the same run (lines 418, 421, 435)
TranslateMessage(idx) ==
    /\ NotAStop
    /\ translateMessageAccepts(transcription, idx, isTranslatingIdx)
    /\ translateCalls < MaxTranslateCalls
    /\ Called("translateMessage")
    /\ IF apiKey = NullKey
       THEN UNCHANGED << isTranslatingIdx, translateInFlight, translateCalls >>
       ELSE /\ isTranslatingIdx' = idx
            /\ translateInFlight' = Append(translateInFlight,
                  [idx |-> idx, text |-> transcription[idx].text])
            /\ translateCalls' = translateCalls + 1
    /\ UNCHANGED << isActive, isConnecting, transcription, pastSessions,
                    audioLevel, refVars, sessVars, nodes, pendingDecode,
                    localKey, viteKey, processKey, alerts, fault, histVars >>

\* lines 428-436: the request i settles with a text, without one, or fails
TranslateSettled(i, outcome) ==
    /\ NotAStop
    /\ i \in DOMAIN translateInFlight
    /\ LET r == translateInFlight[i]
       IN  /\ translateInFlight' =
                 SubSeq(translateInFlight, 1, i - 1)
                 \o SubSeq(translateInFlight, i + 1, Len(translateInFlight))
           /\ transcription' =
                 IF outcome = "text"
                 THEN SetTranslation(transcription, r.idx, <<"T">> \o r.text)
                 ELSE transcription
    /\ isTranslatingIdx' = 0
    /\ UNCHANGED << isActive, isConnecting, pastSessions, audioLevel, refVars,
                    sessVars, nodes, pendingDecode, translateCalls, envVars,
                    histVars >>

\* ------------------------------------------------------------ CultureHub
\* what the CultureHub handlers leave alone
HubFrame ==
    UNCHANGED << liveVars, localKey, viteKey, processKey, alerts, fault,
                 scanVars, keyVars, dbVars, capVars, camVars >>

\* lines 150-160: the citation list taken from the response of request id
ExtractSources(resp, id, current) ==
    CASE resp.chunks = "absent" -> current
      [] resp.chunks = "noweb" -> << >>
      [] resp.chunks = "web" -> << [from |-> id] >>

\* lines 162-164: JSON.parse(text || "{}")
ParseFails(resp) == resp.text = "notjson"

Parsed(resp, id) ==
    [from |-> id, shape |-> IF resp.text = "empty" THEN "empty" ELSE "full"]

\* lines 80-98, up to `await withRetry(...)`
fetchCultureData ==
    /\ fetchCalls < MaxFetches
    /\ Called("fetchCultureData")
    /\ sources' = NoSources
    /\ IF apiKey = NullKey
       THEN /\ error' = CredentialMissing
            /\ isLoading' = FALSE
            /\ UNCHANGED << fetchInFlight, fetchCalls >>
       ELSE /\ error' = NoError
            /\ isLoading' = TRUE
            /\ fetchCalls' = fetchCalls + 1
            /\ fetchInFlight' = fetchInFlight \cup { fetchCalls + 1 }
    /\ UNCHANGED << cultureData, playingAudioIdx, ttsInFlight, ttsPlaying, ttsCalls >>
    /\ HubFrame

\* lines 174-176: useEffect(() => { fetchCultureData() }, [language]), at
\* mount and at every change of the language
LanguageEffect == fetchCultureData

\* lines 178-183; the submit button is disabled while loading (line 214)
HandleSearchSubmit == ~isLoading /\ fetchCultureData

\* line 248: "Tentar Novamente", rendered while not loading with an error
RetryClick == ~isLoading /\ error # NoError /\ fetchCultureData

\* lines 150-171: the request id settles with the response resp
FetchSettled(id, resp) ==
    /\ id \in fetchInFlight
    /\ fetchInFlight' = fetchInFlight \ { id }
    /\ IF ~resp.ok
       THEN /\ error' = FetchFailed
            /\ UNCHANGED << sources, cultureData >>
       ELSE /\ sources' = ExtractSources(resp, id, sources)
            /\ IF ParseFails(resp)
               THEN error' = FetchFailed /\ UNCHANGED cultureData
               ELSE cultureData' = Parsed(resp, id) /\ UNCHANGED error
    /\ isLoading' = FALSE
    /\ UNCHANGED << playingAudioIdx, ttsInFlight, ttsPlaying, fetchCalls, ttsCalls,
                    lastCall >>
    /\ HubFrame

\* the expression buttons are rendered while not loading, without error and
\* with culture data that has expressions (lines 235-250, 284-293)
ExpressionsShown ==
    ~isLoading /\ error = NoError /\ cultureData.shape = "full"

playExpressionAccepts_Always(playing) == TRUE

\* line 51: if (playingAudioIdx !== null) return
playExpressionAccepts(playing) == playing = 0

\* lines 50-62, up to `await withRetry(...)`: the key is process.env.API_KEY
\* as it is, getGeminiKey is not consulted; with that key absent the client
\* constructor may refuse (caught at line 77) or the request is issued
PlayExpression(idx, refused) ==
    /\ ExpressionsShown
    /\ ttsCalls < MaxPlays
    /\ refused => processKey = NullKey
    /\ IF ~playExpressionAccepts(playingAudioIdx)
       THEN UNCHANGED << playingAudioIdx, ttsInFlight, ttsCalls, lastCall >>
       ELSE IF refused
       THEN /\ Called("playExpression")
            /\ UNCHANGED << playingAudioIdx, ttsInFlight, ttsCalls >>
       ELSE /\ Called("playExpression")
            /\ playingAudioIdx' = idx
            /\ ttsInFlight' = ttsInFlight \cup { ttsCalls + 1 }
            /\ ttsCalls' = ttsCalls + 1
    /\ UNCHANGED << cultureData, isLoading, error, sources, fetchInFlight,
                    ttsPlaying, fetchCalls >>
    /\ HubFrame

\* lines 63-77: the speech request settles: audio (the source is started),
\* no audio, or a rejection
PlaySettled(id, outcome) ==
    /\ id \in ttsInFlight
    /\ ttsInFlight' = ttsInFlight \ { id }
    /\ IF outcome = "audio"
       THEN ttsPlaying' = TRUE /\ UNCHANGED playingAudioIdx
       ELSE playingAudioIdx' = 0 /\ UNCHANGED ttsPlaying
    /\ UNCHANGED << cultureData, isLoading, error, sources, fetchInFlight,
                    fetchCalls, ttsCalls, lastCall >>
    /\ HubFrame

\* line 74: source.onended = () => setPlayingAudioIdx(null)
PlayEnded ==
    /\ ttsPlaying
    /\ ttsPlaying' = FALSE
    /\ playingAudioIdx' = 0
    /\ UNCHANGED << cultureData, isLoading, error, sources, fetchInFlight,
                    ttsInFlight, fetchCalls, ttsCalls, lastCall >>
    /\ HubFrame

\* ------------------------------------------------------------ VisualScan
\* what VisualScan leaves alone: the other screens
OtherScreens ==
    UNCHANGED << liveVars, localKey, viteKey, processKey, fault, hubVars,
                 keyVars, dbVars, capVars >>

\* what the request handlers of VisualScan leave alone
ScanFrame == OtherScreens /\ UNCHANGED camVars

\* lines 47-61, up to `await withRetry(...)`
scanImage(img) ==
    /\ scanCalls < MaxScans /\ alerts < MaxAlerts
    /\ Called("scanImage")
    /\ result' = NoResult
    /\ translation' = NoResult
    /\ IF apiKey = NullKey
       THEN /\ alerts' = alerts + 1
            /\ isScanning' = FALSE
            /\ UNCHANGED << scanInFlight, scanCalls >>
       ELSE /\ alerts' = alerts
            /\ isScanning' = TRUE
            /\ scanCalls' = scanCalls + 1
            /\ scanInFlight' = scanInFlight \cup { scanCalls + 1 }
    /\ UNCHANGED << isTranslating, resultTransInFlight, resultTransCalls >>
    /\ OtherScreens

\* lines 97-108: the chosen file is read, stored and scanned; the file
\* button is always enabled (line 155)
HandleFileUpload(img) == image' = img /\ scanImage(img) /\ UNCHANGED camVars

\* lines 70-75: the scan request id settles
ScanSettled(id, outcome) ==
    /\ id \in scanInFlight
    /\ scanInFlight' = scanInFlight \ { id }
    /\ result' = CASE outcome = "text" -> [kind |-> "analysis", from |-> id]
                   [] outcome = "notext" -> NoResult
                   [] outcome = "rejected503" -> [kind |-> "unavailable", from |-> id]
                   [] outcome = "rejected" -> [kind |-> "failed", from |-> id]
    /\ isScanning' = FALSE
    /\ UNCHANGED << image, translation, isTranslating, resultTransInFlight,
                    scanCalls, resultTransCalls, alerts, lastCall >>
    /\ ScanFrame

\* line 79: if (!result || isTranslating) return
translateResultAccepts(res, translating) == res # NoResult /\ ~translating

\* lines 78-88, up to `await withRetry(...)`; the button is rendered with a
\* result while not scanning (lines 219-251); without a key the marker is
\* set and reset in the same run (lines 80, 83, 93)
TranslateResult ==
    /\ ~isScanning
    /\ translateResultAccepts(result, isTranslating)
    /\ resultTransCalls < MaxResultTranslations
    /\ Called("translateResult")
    /\ IF apiKey = NullKey
       THEN UNCHANGED << isTranslating, resultTransInFlight, resultTransCalls >>
       ELSE /\ isTranslating' = TRUE
            /\ resultTransInFlight' =
                  resultTransInFlight \cup { [id |-> resultTransCalls + 1, of |-> result] }
            /\ resultTransCalls' = resultTransCalls + 1
    /\ UNCHANGED << image, result, isScanning, translation, scanInFlight,
                    scanCalls, alerts >>
    /\ ScanFrame

\* lines 89-94: the translation request r settles
TranslateResultSettled(r, outcome) ==
    /\ r \in resultTransInFlight
    /\ resultTransInFlight' = resultTransInFlight \ { r }
    /\ translation' = CASE outcome = "text" -> [kind |-> "translation", from |-> r.of.from]
                        [] outcome = "notext" -> NoResult
                        [] outcome = "rejected" -> [kind |-> "failed", from |-> r.of.from]
    /\ isTranslating' = FALSE
    /\ UNCHANGED << image, result, isScanning, scanInFlight, scanCalls,
                    resultTransCalls, alerts, lastCall >>
    /\ ScanFrame

\* line 177: "Limpar", rendered with an image while not scanning
ClearImage ==
    /\ image # NoImage /\ ~isScanning
    /\ image' = NoImage /\ result' = NoResult /\ translation' = NoResult
    /\ UNCHANGED << isScanning, isTranslating, scanInFlight, resultTransInFlight,
                    scanCalls, resultTransCalls, alerts, lastCall >>
    /\ ScanFrame

\* ------------------------------------------------------ VisualScan camera
\* what the camera handlers leave alone
CameraFrame ==
    /\ OtherScreens
    /\ UNCHANGED << image, result, isScanning, translation, isTranslating,
                    scanInFlight, resultTransInFlight, scanCalls,
                    resultTransCalls, lastCall >>

\* lines 110-113, up to `await getUserMedia`; the camera button is rendered
\* while the camera view is closed (lines 163-170)
StartCamera ==
    /\ ~showCamera
    /\ camCalls < MaxCameraStarts
    /\ showCamera' = TRUE
    /\ camCalls' = camCalls + 1
    /\ camPending' = camPending \cup { camCalls + 1 }
    /\ UNCHANGED << streamRef, camStreams, alerts >>
    /\ CameraFrame

\* lines 114-118: the device was granted to the call c; the stream is stored
\* in streamRef whatever the ref holds and whatever showCamera is
CameraGranted(c) ==
    /\ c \in camPending
    /\ camPending' = camPending \ { c }
    /\ camStreams' = [camStreams EXCEPT ![c] = "live"]
    /\ streamRef' = c
    /\ UNCHANGED << showCamera, camCalls, alerts >>
    /\ CameraFrame

\* lines 119-122: the device was refused to the call c
CameraDenied(c) ==
    /\ c \in camPending
    /\ camPending' = camPending \ { c }
    /\ alerts' = alerts + 1
    /\ showCamera' = FALSE
    /\ UNCHANGED << streamRef, camStreams, camCalls >>
    /\ CameraFrame

\* lines 139-145: the tracks of the stream the ref holds are stopped, the
\* ref is cleared, the view is closed
stopCamera ==
    /\ camStreams' = IF streamRef # 0
                     THEN [camStreams EXCEPT ![streamRef] = "stopped"]
                     ELSE camStreams
    /\ streamRef' = 0
    /\ showCamera' = FALSE
    /\ UNCHANGED << camPending, camCalls >>

\* line 172: "Cancelar", rendered while the camera view is open
StopCameraClick ==
    /\ showCamera
    /\ stopCamera
    /\ UNCHANGED alerts
    /\ CameraFrame

\* lines 125-137: the shutter button is rendered with the video element
\* while the camera view is open (lines 190-195); the frame is stored and
\* scanned and the camera is stopped
CapturePhoto(img) ==
    /\ showCamera
    /\ image' = img
    /\ scanImage(img)
    /\ stopCamera

\* ------------------------------------------------------------- key sources
\* localStorage is re-read by every getGeminiKey call (line 274); the stored
\* value is set or removed outside these screens
StorageChanged(key) ==
    /\ localKey' = key
    /\ localKey # key
    /\ UNCHANGED << liveVars, viteKey, processKey, alerts, fault, lastCall,
                    hubVars, scanVars, keyVars, dbVars, capVars, camVars >>

\* lines 271-286: one call of getGeminiKey
GetGeminiKey ==
    /\ keyCalls < MaxKeyCalls
    /\ keyCalls' = keyCalls + 1
    /\ resolvedKey' = getGeminiKey(localKey, viteKey, processKey)
    /\ UNCHANGED << liveVars, envVars, hubVars, scanVars, dbVars, capVars,
                    camVars >>

\* -------------------------------------------------------- public.profiles
\* what a statement on the table leaves alone
DbFrame ==
    UNCHANGED << liveVars, envVars, hubVars, scanVars, keyVars, capVars,
                 camVars >>

\* auth.uid() of the caller; 0 stands for NULL
AuthUid(u) == u

\* SQL `a = b` used as a policy expression: NULL = b is not true
SqlEq(a, b) == a # 0 /\ a = b

\* lines 5-10: a row with the column defaults
NewRow(id) == [id |-> id, usage_count |-> 0, plan_level |-> "Elite"]

\* line 6: PRIMARY KEY (one row per id) REFERENCES auth.users
KeyConstraints(rows) ==
    /\ \A r1, r2 \in rows : r1.id = r2.id => r1 = r2
    /\ \A r \in rows : r.id \in AuthUsers

SelectUsing_Open(u, row) == TRUE

\* lines 18-20: FOR SELECT USING (auth.uid() = id)
SelectUsing(u, row) == SqlEq(AuthUid(u), row.id)

\* lines 23-25: FOR UPDATE USING (auth.uid() = id)
UpdateUsing(u, row) == SqlEq(AuthUid(u), row.id)

\* lines 23-25: without WITH CHECK the USING expression is applied to the new row
UpdateCheck(u, row) == UpdateUsing(u, row)

\* lines 28-30: FOR INSERT WITH CHECK (auth.uid() = id)
InsertCheck(u, row) == SqlEq(AuthUid(u), row.id)

\* INSERT INTO profiles (id) VALUES (id), issued as u; a statement that a
\* policy or a constraint rejects changes nothing
Insert(u, id) ==
    LET row == NewRow(id)
        accepted == InsertCheck(u, row) /\ KeyConstraints(profiles \cup { row })
                    /\ row \notin profiles
    IN  /\ profiles' = IF accepted THEN profiles \cup { row } ELSE profiles
        /\ touched' = IF accepted THEN touched \cup { [by |-> u, id |-> id] }
                      ELSE touched
        /\ lastDenied' = IF accepted THEN lastDenied ELSE [by |-> u, id |-> id]
        /\ UNCHANGED seen
        /\ DbFrame

\* SELECT * FROM profiles, issued as u: the rows the policy lets through
Select(u) ==
    /\ seen' = [seen EXCEPT ![u] = @ \cup { r.id : r \in { x \in profiles : SelectUsing(u, x) } }]
    /\ UNCHANGED << profiles, touched, lastDenied >>
    /\ DbFrame

\* UPDATE profiles SET id = newId, usage_count = n WHERE id = t, issued as
\* u: the row must be visible to u for SELECT and UPDATE, the new row must
\* pass the check and the constraints
Update(u, t, newId, n) ==
    LET old == { r \in profiles : r.id = t /\ SelectUsing(u, r) /\ UpdateUsing(u, r) }
        new == { [r EXCEPT !.id = newId, !.usage_count = n] : r \in old }
        rows == (profiles \ old) \cup new
        accepted == /\ old # {}
                    /\ \A r \in new : UpdateCheck(u, r)
                    /\ KeyConstraints(rows)
                    /\ Cardinality(rows) = Cardinality(profiles)
    IN  /\ profiles' = IF accepted THEN rows ELSE profiles
        /\ touched' = IF accepted
                      THEN touched \cup { [by |-> u, id |-> t], [by |-> u, id |-> newId] }
                      ELSE touched
        /\ lastDenied' = IF accepted THEN lastDenied
                         ELSE [by |-> u, id |-> IF old = {} THEN t ELSE newId]
        /\ UNCHANGED seen
        /\ DbFrame

\* ------------------------------------------------------- specifications
\* Session lifecycle: overlapping start requests, every termination trigger,
\* the metering loop, late channel events.
MaxLifeMsgs == 2

LifeMessages ==
    { [NoMsg EXCEPT !.audio = 1], [NoMsg EXCEPT !.inT = <<"d">>, !.tc = TRUE] }

Next ==
    \/ \E k \in Sessions : StartSession(k)
    \/ \E k \in Sessions, lvl \in Levels : MicGranted(k, lvl)
    \/ \E k \in Sessions : MicDenied(k)
    \/ \E k \in Sessions, lvl \in Levels : UpdateLevel(k, lvl)
    \/ \E k \in Sessions : ChannelOpen(k)
    \/ \E k \in Sessions : ChannelError(k)
    \/ \E k \in Sessions : ChannelClose(k)
    \/ StopClick
    \/ \E k \in Sessions, m \in LifeMessages :
          arrivals < MaxLifeMsgs /\ OnMessage(k, m)
    \/ DecodeResume
    \/ \E n \in 1 .. MaxMsgs : SourceEnded(n)
    \/ \E k \in Sessions : ContextsClosed(k)
    \/ \E t \in UserTexts : HandleTextResponse(t)

Spec == Init /\ [][Next]_vars

\* Playback pipeline of one session: audio fragments, interruptions, the
\* output clock, node completion, and every way the session ends.
PlaybackMessages ==
    { m \in Messages : m.inT = NoText /\ m.outT = NoText /\ ~m.tc }

NextPlayback ==
    \/ StartSession(1)
    \/ \E lvl \in Levels : MicGranted(1, lvl)
    \/ MicDenied(1)
    \/ ChannelOpen(1)
    \/ ChannelError(1)
    \/ ChannelClose(1)
    \/ StopClick
    \/ \E m \in PlaybackMessages : OnMessage(1, m)
    \/ DecodeResume
    \/ \E n \in 1 .. MaxMsgs : SourceEnded(n)
    \/ Tick(1)
    \/ ContextsClosed(1)

SpecPlayback == Init /\ [][NextPlayback]_vars

\* Transcript aggregation of one session: transcript fragments, turn-complete
\* signals, fragments that travel with audio, typed text.
TurnFragments == { m \in Messages : ~m.intr /\ m.audio < 2 /\ m # [NoMsg EXCEPT !.audio = 1] }

NextTurns ==
    \/ StartSession(1)
    \/ \E lvl \in Levels : MicGranted(1, lvl)
    \/ ChannelOpen(1)
    \/ ChannelClose(1)
    \/ StopClick
    \/ \E m \in TurnFragments : OnMessage(1, m)
    \/ DecodeResume
    \/ \E t \in UserTexts : HandleTextResponse(t)

SpecTurns == Init /\ [][NextTurns]_vars

\* Message translation of one session.
TranslateMessages == { [NoMsg EXCEPT !.outT = <<"b">>], [NoMsg EXCEPT !.tc = TRUE] }

NextTranslate ==
    \/ StartSession(1)
    \/ \E lvl \in Levels : MicGranted(1, lvl)
    \/ ChannelOpen(1)
    \/ ChannelClose(1)
    \/ StopClick
    \/ \E m \in TranslateMessages : OnMessage(1, m)
    \/ \E t \in UserTexts : HandleTextResponse(t)
    \/ \E idx \in 1 .. (MaxTranscript + 2 * MaxMsgs) : TranslateMessage(idx)
    \/ \E i \in 1 .. MaxTranslateCalls, o \in {"text", "empty", "error"} :
          TranslateSettled(i, o)

SpecTranslate == Init /\ [][NextTranslate]_vars

\* Requests of the culture hub, with the stored key set and removed while
\* the screen is in use.
NextHub ==
    \/ LanguageEffect
    \/ HandleSearchSubmit
    \/ RetryClick
    \/ \E id \in 1 .. MaxFetches, resp \in FetchResponses : FetchSettled(id, resp)
    \/ \E idx \in Expressions, refused \in BOOLEAN : PlayExpression(idx, refused)
    \/ \E id \in 1 .. MaxPlays, o \in {"audio", "noaudio", "rejected"} : PlaySettled(id, o)
    \/ PlayEnded
    \/ \E key \in {NullKey, TypicalKey} : StorageChanged(key)

SpecHub == Init /\ [][NextHub]_vars

\* The culture hub with its pending work carried out: a speech request
\* settles (withRetry makes a bounded number of attempts) and a started
\* buffer source plays to its end.
SpecHubLive ==
    /\ Init /\ [][NextHub]_vars
    /\ WF_vars(\E id \in 1 .. MaxPlays, o \in {"audio", "noaudio", "rejected"} :
                  PlaySettled(id, o))
    /\ WF_vars(PlayEnded)

\* Requests of the visual scan, with the stored key set and removed while
\* the screen is in use.
NextScan ==
    \/ \E img \in Images : HandleFileUpload(img)
    \/ \E id \in 1 .. MaxScans, o \in {"text", "notext", "rejected", "rejected503"} :
          ScanSettled(id, o)
    \/ TranslateResult
    \/ \E r \in resultTransInFlight, o \in {"text", "notext", "rejected"} :
          TranslateResultSettled(r, o)
    \/ ClearImage
    \/ \E key \in {NullKey, TypicalKey} : StorageChanged(key)

SpecScan == Init /\ [][NextScan]_vars

\* The camera of the visual scan: opening, cancelling, capturing, with the
\* device granted or refused at any later moment.
NextCamera ==
    \/ StartCamera
    \/ \E c \in 1 .. MaxCameraStarts : CameraGranted(c)
    \/ \E c \in 1 .. MaxCameraStarts : CameraDenied(c)
    \/ StopCameraClick
    \/ \E img \in Images : CapturePhoto(img)
    \/ \E id \in 1 .. MaxScans, o \in {"text", "notext", "rejected", "rejected503"} :
          ScanSettled(id, o)

SpecCamera == Init /\ [][NextCamera]_vars

\* The key lookup over every combination of the three key sources.
InitKeys ==
    /\ InitState
    /\ localKey \in KeyValues("local")
    /\ viteKey \in KeyValues("vite")
    /\ processKey \in KeyValues("process")
    /\ fault = "none"

NextKeys ==
    \/ GetGeminiKey
    \/ \E key \in KeyValues("local") : StorageChanged(key)

SpecKeys == InitKeys /\ [][NextKeys]_vars

\* Statements on public.profiles issued by each user and by the anonymous caller.
NextProfiles ==
    \/ \E u \in Users, id \in Users : Insert(u, id)
    \/ \E u \in Users : Select(u)
    \/ \E u \in Users, t \in Users, newId \in Users, n \in 0 .. MaxUsage :
          Update(u, t, newId, n)

SpecProfiles == Init /\ [][NextProfiles]_vars

\* Session termination with one release call of stopSession failing.
InitRelease ==
    /\ InitState
    /\ localKey = TypicalKey /\ viteKey = NullKey /\ processKey = NullKey
    /\ fault \in ReleaseFaults

NextRelease ==
    \/ StartSession(1)
    \/ \E lvl \in Levels : MicGranted(1, lvl)
    \/ MicDenied(1)
    \/ ChannelOpen(1)
    \/ ChannelError(1)
    \/ ChannelClose(1)
    \/ StopClick
    \/ \E m \in LifeMessages : OnMessage(1, m)
    \/ DecodeResume
    \/ \E n \in 1 .. MaxMsgs : SourceEnded(n)
    \/ ContextsClosed(1)

SpecRelease == InitRelease /\ [][NextRelease]_vars

\* A start request cancelled while connecting followed by a second session:
\* transcript fragments, turn-complete signals, typed text and message
\* translation across the two sessions.
RestartMessages ==
    { [NoMsg EXCEPT !.inT = <<"a">>], [NoMsg EXCEPT !.outT = <<"b">>],
      [NoMsg EXCEPT !.tc = TRUE] }

NextRestart ==
    \/ \E k \in Sessions : StartSession(k)
    \/ \E k \in Sessions, lvl \in Levels : MicGranted(k, lvl)
    \/ \E k \in Sessions : ChannelOpen(k)
    \/ \E k \in Sessions : ChannelClose(k)
    \/ StopClick
    \/ \E k \in Sessions, m \in RestartMessages : OnMessage(k, m)
    \/ \E t \in UserTexts : HandleTextResponse(t)
    \/ \E idx \in 1 .. (MaxTranscript + 2 * MaxMsgs) : TranslateMessage(idx)
    \/ \E i \in 1 .. MaxTranslateCalls, o \in {"text", "empty", "error"} :
          TranslateSettled(i, o)

SpecRestart == Init /\ [][NextRestart]_vars

\* Microphone capture of one session: blocks of samples converted and sent
\* while the session is open.
NextCapture ==
    \/ StartSession(1)
    \/ \E lvl \in Levels : MicGranted(1, lvl)
    \/ ChannelOpen(1)
    \/ StopClick
    \/ \E data \in Blocks : AudioProcess(1, data)

SpecCapture == Init /\ [][NextCapture]_vars

\* ------------------------------------------------------------ properties
RECURSIVE SumDur(_)
SumDur(log) == IF log = << >> THEN 0 ELSE log[Len(log)].dur + SumDur(SubSeq(log, 1, Len(log) - 1))

\* the fragments started since the session began, none interrupted, none pending
SettledRun == cleanRun /\ pendingDecode = << >>

PrefixSums(log) ==
    \A i \in DOMAIN log : log[i].when = SumDur(SubSeq(log, 1, i - 1))

\* C1 as stated: after N uninterrupted fragments of a fresh session the cursor
\* equals the sum of the N durations and the k-th buffer starts at the sum of
\* the first k-1 durations.
C1_CursorIsSumOfDurations ==
    SettledRun => (nextStartTimeRef = SumDur(playLog) /\ PrefixSums(playLog))

\* C1 amended: after N uninterrupted fragments of a fresh session the cursor
\* is the start of the last buffer plus its duration and at least the sum of
\* the durations; cursor and starts equal the prefix sums exactly when the
\* output clock never read later than the cursor as a fragment arrived.
C1_CursorFollowsClock ==
    SettledRun =>
        /\ nextStartTimeRef >= SumDur(playLog)
        /\ playLog # << >> =>
              nextStartTimeRef = playLog[Len(playLog)].when + playLog[Len(playLog)].dur
        /\ ~clockAhead => (nextStartTimeRef = SumDur(playLog) /\ PrefixSums(playLog))
        /\ clockAhead => nextStartTimeRef > SumDur(playLog)

C1_Witness ==
    SettledRun /\ Len(playLog) >= 2 /\ clockAhead /\ isActive

\* C2: absent interruption, buffers start in arrival order, each no earlier
\* than the max(cursor, clock) computed when it arrived and no earlier than
\* the end of the buffer before it, whatever the clock and the interleaving
\* of suspended callbacks.
C2_SequentialPlayback ==
    cleanRun =>
        /\ \A i \in DOMAIN playLog :
              /\ playLog[i].when >= playLog[i].floor
              /\ i > 1 => /\ playLog[i].seq > playLog[i - 1].seq
                          /\ playLog[i].when >= playLog[i - 1].when + playLog[i - 1].dur
        /\ \A j \in DOMAIN pendingDecode : nextStartTimeRef >= pendingDecode[j].floor

C2_Witness ==
    /\ cleanRun /\ Len(playLog) >= 2 /\ clockAhead
    /\ \E i \in DOMAIN playLog : playLog[i].behind > 0

\* a callback run that handles an interruption marker: a message without
\* accepted audio, or the resumption of a suspended one
InterruptHandled ==
    \/ \E k \in Sessions, m \in Messages :
          m.intr /\ ~AudioAccepted(m, k) /\ OnMessage(k, m)
    \/ pendingDecode # << >> /\ Head(pendingDecode).msg.intr /\ DecodeResume

\* C3: the callback run that handles an interruption ends with an empty
\* Active Source Set and a cursor of zero, however many buffers were
\* scheduled or still being decoded.
C3_InterruptionResets ==
    [][InterruptHandled => (sourcesRef' = {} /\ nextStartTimeRef' = 0)]_vars

C3_Witness ==
    /\ isActive /\ ~cleanRun /\ sourcesRef = {} /\ nextStartTimeRef = 0
    /\ pendingDecode # << >>
    /\ \E n \in DOMAIN nodes : nodes[n].state = "stopped"

\* what a turn-complete signal must do to transcript and buffers, given the
\* input text I and the output text O of the turn
Committed(I, O) ==
    /\ Len(transcription') = Len(transcription) + (IF I # NoText THEN 1 ELSE 0)
                                                + (IF O # NoText THEN 1 ELSE 0)
    /\ transcription' =
          transcription
          \o (IF I # NoText
              THEN << [role |-> "user", text |-> I, translation |-> NoText] >>
              ELSE << >>)
          \o (IF O # NoText
              THEN << [role |-> "tutor", text |-> O, translation |-> NoText] >>
              ELSE << >>)
    /\ currentInputRef' = NoText
    /\ currentOutputRef' = NoText

\* C4: when a turn-complete signal is handled, with I and O the fragments
\* received since the previous turn-complete concatenated in arrival order,
\* the transcript grows by the user message I (if non-empty) followed by the
\* tutor message O (if non-empty), by nothing when both are empty, and both
\* buffers are empty afterwards.
C4_TurnCompleteCommits ==
    [][\A m \in Messages : m.tc =>
          /\ (\E k \in Sessions : ~AudioAccepted(m, k) /\ OnMessage(k, m))
                => Committed(arrivedInput \o m.inT, arrivedOutput \o m.outT)
          /\ (pendingDecode # << >> /\ Head(pendingDecode).msg = m /\ DecodeResume)
                => Committed(arrivedInput, arrivedOutput)]_vars

\* a call of stopSession, whatever the trigger
StopStep ==
    \/ StopClick
    \/ \E k \in Sessions : MicDenied(k) \/ ChannelError(k) \/ ChannelClose(k)

\* C5: a stopSession call that directly follows another one changes no
\* state: history, channel handle, context handles, Active Source Set,
\* metering handle, flags, and nothing is torn down a second time.
C5_StopIdempotent ==
    [][(stopStreak >= 1 /\ StopStep) =>
          UNCHANGED << pastSessions, sessionPromiseRef, audioContextInRef,
                       audioContextOutRef, sourcesRef, animationFrameRef,
                       analyzerRef, isActive, isConnecting, audioLevel,
                       closeRequested, ctxInState, ctxOutState, nodes,
                       frameScheduled >>]_vars

C5_Witness ==
    /\ stopStreak = 2 /\ Len(transcription) > 1 /\ Len(pastSessions) = 1
    /\ \E k \in Sessions : closeRequested[k] /\ channel[k] = "closed"

\* C6: at most one channel and one pair of audio contexts is open or being
\* opened (channels asked to close and contexts being closed not counted).
C6_SingleSession ==
    /\ Cardinality({k \in Sessions : channel[k] \in {"connecting", "open"}
                                      /\ ~closeRequested[k]}) <= 1
    /\ Cardinality({k \in Sessions : ctxInState[k] = "running"}) <= 1
    /\ Cardinality({k \in Sessions : ctxOutState[k] = "running"}) <= 1

\* C7: every termination, whatever the trigger, prepends a log holding the
\* visible transcript exactly when that transcript has more than one message.
C7_SnapshotOnEveryTermination ==
    [][StopStep =>
          pastSessions' =
             IF Len(transcription) > 1
             THEN << [messages |-> transcription, language |-> "lang"] >> \o pastSessions
             ELSE pastSessions]_vars

\* C8: a stopSession call leaves the channel handle null with the channel
\* asked to close, both context handles null with the contexts closing or
\* closed, the Active Source Set empty with its nodes stopped, the metering
\* frame cancelled and its handle null, and the UI idle; a metering frame
\* that fires while the analyser handle is null does not reschedule.
C8_TerminationReleases ==
    [][/\ StopStep =>
            /\ sessionPromiseRef' = 0
            /\ sessionPromiseRef # 0 => closeRequested'[sessionPromiseRef]
            /\ audioContextInRef' = 0 /\ audioContextOutRef' = 0
            /\ audioContextInRef # 0 =>
                  ctxInState'[audioContextInRef] \in {"closing", "closed"}
            /\ audioContextOutRef # 0 =>
                  ctxOutState'[audioContextOutRef] \in {"closing", "closed"}
            /\ sourcesRef' = {}
            /\ \A n \in sourcesRef : nodes'[n].state \in {"stopped", "ended"}
            /\ animationFrameRef' = 0 /\ analyzerRef' = 0
            /\ animationFrameRef # 0 => ~frameScheduled'[animationFrameRef]
            /\ ~isActive' /\ ~isConnecting' /\ audioLevel' = 0
       /\ \A k \in Sessions, lvl \in Levels :
            (analyzerRef = 0 /\ UpdateLevel(k, lvl)) =>
               /\ ~frameScheduled'[k]
               /\ audioLevel' = audioLevel
               /\ animationFrameRef' = animationFrameRef]_vars

C8_Witness ==
    /\ stopStreak = 1 /\ audioLevel = 0 /\ sourcesRef = {}
    /\ \E n \in DOMAIN nodes : nodes[n].state = "stopped"
    /\ \E k \in Sessions :
          /\ closeRequested[k] /\ ctxInState[k] = "closing"
          /\ ctxOutState[k] = "closing" /\ ~frameScheduled[k]

\* C9: an open or message event of a session whose channel stopSession has
\* asked to close changes none of transcript, transcript buffers, Active
\* Source Set, cursor, isActive and isConnecting.
C9_LateEventsIgnored ==
    [][\A k \in Sessions :
          (closeRequested[k]
             /\ (ChannelOpen(k) \/ \E m \in Messages : OnMessage(k, m)))
          => UNCHANGED << transcription, currentInputRef, currentOutputRef,
                          sourcesRef, nextStartTimeRef, isActive,
                          isConnecting >>]_vars

\* C10: at most one translation request is pending; while one is pending no
\* message is accepted by translateMessage, and a request is only issued, one
\* at a time, while none is pending.
C10_SingleTranslationRequest ==
    /\ [](/\ Len(translateInFlight) <= 1
          /\ translateInFlight # << >> =>
                /\ isTranslatingIdx # 0
                /\ \A idx \in DOMAIN transcription :
                      ~translateMessageAccepts(transcription, idx, isTranslatingIdx))
    /\ [][translateCalls' # translateCalls =>
             /\ translateInFlight = << >>
             /\ isTranslatingIdx = 0
             /\ translateCalls' = translateCalls + 1]_vars

C10_Witness ==
    /\ Len(translateInFlight) = 1
    /\ isTranslatingIdx \in DOMAIN transcription
    /\ transcription[isTranslatingIdx].role = "tutor"
    /\ transcription[isTranslatingIdx].translation = NoText
    /\ translateInFlight[1].idx = isTranslatingIdx

\* no request leaves the browser in this step
NoNetworkCall ==
    UNCHANGED << fetchCalls, ttsCalls, scanCalls, resultTransCalls,
                 translateCalls, channel >>

\* C11: with no credential (getGeminiKey returns null) an invocation of
\* startSession, translateMessage, fetchCultureData, playExpression,
\* scanImage or translateResult issues no request, leaves the action's
\* loading marker idle and sets the credential-missing message (the error
\* text of the culture hub, an alert elsewhere).
C11_NoCredentialAborts ==
    [][apiKey = NullKey =>
          /\ (\E k \in Sessions : StartSession(k)) =>
                /\ NoNetworkCall /\ ~isConnecting' /\ ~isActive'
                /\ alerts' = alerts + 1
          /\ (\E idx \in DOMAIN transcription : TranslateMessage(idx)) =>
                /\ NoNetworkCall /\ isTranslatingIdx' = 0
                /\ alerts' = alerts + 1
          /\ (LanguageEffect \/ HandleSearchSubmit \/ RetryClick) =>
                /\ NoNetworkCall /\ ~isLoading'
                /\ error' = CredentialMissing
          /\ (playingAudioIdx = 0
                /\ \E idx \in Expressions, refused \in BOOLEAN : PlayExpression(idx, refused)) =>
                /\ NoNetworkCall /\ playingAudioIdx' = 0
                /\ error' = CredentialMissing
          /\ (\E img \in Images : HandleFileUpload(img)) =>
                /\ NoNetworkCall /\ ~isScanning'
                /\ alerts' = alerts + 1
          /\ TranslateResult =>
                /\ NoNetworkCall /\ ~isTranslating'
                /\ alerts' = alerts + 1]_vars

\* C12: per affordance at most one request is pending: culture fetch, image
\* scan, scan-result translation, message translation; a request is issued
\* only while none of its affordance is pending.
C12_OneRequestPerAffordance ==
    /\ Cardinality(fetchInFlight) <= 1
    /\ Cardinality(scanInFlight) <= 1
    /\ Cardinality(resultTransInFlight) <= 1
    /\ Len(translateInFlight) <= 1

\* C13: when a culture request ends in failure (rejected, or its text does
\* not parse) the citation list is empty afterwards and the culture data is
\* not data of that response.
C13_NoPartialResult ==
    [][\A id \in 1 .. MaxFetches, resp \in FetchResponses :
          (FetchSettled(id, resp) /\ (~resp.ok \/ ParseFails(resp))) =>
             /\ error' = FetchFailed
             /\ sources' = NoSources
             /\ cultureData'.from # id]_vars

\* C14: when the microphone is refused, no audio context and no channel is
\* created for that start request, the request ends without a retry, the
\* flags are idle and an alert is shown.
C14_MicFailureAborts ==
    [][\A k \in Sessions :
          MicDenied(k) =>
             /\ ctxInState'[k] = "none" /\ ctxOutState'[k] = "none"
             /\ channel'[k] = "none"
             /\ startPc'[k] = "returned"
             /\ ~isConnecting' /\ ~isActive'
             /\ alerts' = alerts + 1]_vars

\* C15: a getGeminiKey call returns the browser-stored key when that key is
\* present and longer than 10 characters, else the build-time key under the
\* same condition, else the legacy runtime key under the same condition,
\* else null.
C15_KeyPriority ==
    [][GetGeminiKey =>
          LET long(key) == key.src # "null" /\ key.len >= 11
          IN  /\ long(localKey) => resolvedKey' = localKey
              /\ (~long(localKey) /\ long(viteKey)) => resolvedKey' = viteKey
              /\ (~long(localKey) /\ ~long(viteKey) /\ long(processKey)) =>
                    resolvedKey' = processKey
              /\ (~long(localKey) /\ ~long(viteKey) /\ ~long(processKey)) =>
                    resolvedKey' = NullKey]_vars

C15_Witness ==
    /\ keyCalls > 0
    /\ localKey.src = "local" /\ localKey.len = 10
    /\ viteKey.src = "vite" /\ viteKey.len = 11
    /\ processKey.src = "process" /\ processKey.len = 11
    /\ resolvedKey = viteKey

\* C16: a rejected request of fetchCultureData, scanImage, translateResult,
\* translateMessage or playExpression leaves a user-visible message and the
\* action's in-progress marker idle, so that the action is accepted again.
C16_FailuresRecovered ==
    [][/\ \A id \in 1 .. MaxFetches, resp \in FetchResponses :
             (FetchSettled(id, resp) /\ ~resp.ok) =>
                error' = FetchFailed /\ ~isLoading'
       /\ \A id \in 1 .. MaxScans, o \in {"rejected", "rejected503"} :
             ScanSettled(id, o) =>
                result'.kind \in {"failed", "unavailable"} /\ ~isScanning'
       /\ \A r \in resultTransInFlight :
             TranslateResultSettled(r, "rejected") =>
                translation'.kind = "failed" /\ ~isTranslating'
       /\ \A i \in 1 .. MaxTranslateCalls :
             TranslateSettled(i, "error") =>
                /\ isTranslatingIdx' = 0
                /\ alerts' > alerts \/ transcription' # transcription
       /\ \A id \in 1 .. MaxPlays :
             PlaySettled(id, "rejected") =>
                /\ playingAudioIdx' = 0
                /\ alerts' > alerts \/ error' # NoError]_vars

\* C17: when one release call of stopSession fails (the channel's close, the
\* close of either audio context, the stop of a playback node), stopSession
\* returns normally and every other release step is carried out: handles
\* null, the channel asked to close, the contexts closing, every other node
\* stopped, the set cleared, the metering frame cancelled, the UI idle.
C17_ReleaseStepsGuarded ==
    [][StopStep =>
          /\ stopOutcome' = "returned"
          /\ sessionPromiseRef' = 0
          /\ (sessionPromiseRef # 0 /\ fault # "channelClose") =>
                closeRequested'[sessionPromiseRef]
          /\ audioContextInRef' = 0 /\ audioContextOutRef' = 0
          /\ (audioContextInRef # 0 /\ fault # "ctxInClose") =>
                ctxInState'[audioContextInRef] \in {"closing", "closed"}
          /\ (audioContextOutRef # 0 /\ fault # "ctxOutClose") =>
                ctxOutState'[audioContextOutRef] \in {"closing", "closed"}
          /\ \A n \in sourcesRef :
                \/ fault = "nodeStop" /\ n = FirstSource(sourcesRef)
                \/ nodes'[n].state \in {"stopped", "ended"}
          /\ sourcesRef' = {}
          /\ animationFrameRef' = 0 /\ analyzerRef' = 0
          /\ animationFrameRef # 0 => ~frameScheduled'[animationFrameRef]
          /\ ~isActive' /\ ~isConnecting' /\ audioLevel' = 0]_vars

C17_Witness ==
    /\ fault = "nodeStop" /\ faultHit /\ stopOutcome = "returned"
    /\ \E n \in DOMAIN nodes : nodes[n].state = "scheduled"
    /\ sourcesRef = {} /\ analyzerRef = 0 /\ audioLevel = 0
    /\ \E k \in Sessions :
          closeRequested[k] /\ ctxOutState[k] = "closing" /\ ~frameScheduled[k]

\* C18: a message of the visible transcript keeps its position, role and
\* text in every step, and a translation once set is not changed.
C18_MessagesImmutable ==
    [][\A i \in DOMAIN transcription :
          /\ i \in DOMAIN transcription'
          /\ transcription'[i].role = transcription[i].role
          /\ transcription'[i].text = transcription[i].text
          /\ transcription[i].translation # NoText =>
                transcription'[i].translation = transcription[i].translation]_vars

\* C19: the table holds at most one row per user; a user reads only the
\* row whose id is the user's own, and every row created or modified was
\* created or modified by the user it belongs to; the anonymous caller
\* reads and writes nothing.
C19_OwnerOnly ==
    /\ \A r1, r2 \in profiles : r1.id = r2.id => r1 = r2
    /\ \A u \in Users : seen[u] \subseteq ({u} \ {0})
    /\ \A t \in touched : t.by = t.id /\ t.by # 0

C19_Witness ==
    /\ Cardinality(profiles) = 2
    /\ seen[1] = {1}
    /\ lastDenied = [by |-> 1, id |-> 2]
    /\ \E r \in profiles : r.id = 2 /\ r.usage_count > 0

\* C20: a fragment whose decode was pending when the playback state was
\* reset (interruption or stopSession) starts no node when its decode
\* resumes, adds nothing to the Active Source Set and does not advance the
\* cursor.
C20_ResetIsAtomic ==
    [][(staleDecodes > 0 /\ DecodeResume) =>
          /\ Len(nodes') = Len(nodes)
          /\ sourcesRef' \subseteq sourcesRef
          /\ nextStartTimeRef' <= nextStartTimeRef]_vars

\* C21: every sample s in [-1, 1] of a converted block becomes a PCM value
\* in [-32768, 32767] that is not of the opposite sign of s (zero for
\* s = 0), and a larger sample never becomes a smaller PCM value; full scale
\* s = 1 becomes the largest positive value.
C21_PcmInRangeSignMonotone ==
    /\ DOMAIN sentPcm = DOMAIN lastBlock
    /\ \A i \in DOMAIN lastBlock :
          /\ sentPcm[i] \in -FullScale .. FullScale - 1
          /\ lastBlock[i] > 0 => sentPcm[i] >= 0
          /\ lastBlock[i] < 0 => sentPcm[i] <= 0
          /\ lastBlock[i] = 0 => sentPcm[i] = 0
          /\ lastBlock[i] = One => sentPcm[i] = FullScale - 1
          /\ \A j \in DOMAIN lastBlock :
                lastBlock[i] <= lastBlock[j] => sentPcm[i] <= sentPcm[j]

\* C22: a start request that was connecting (awaiting the microphone or the
\* open event) when stopSession was called creates no audio context and no
\* channel afterwards, and its open event leaves isActive and isConnecting
\* as they are.
C22_StopCancelsStart ==
    [][\A k \in cancelledStarts \cap Connecting :
          /\ ctxInState[k] = "none" => ctxInState'[k] = "none"
          /\ ctxOutState[k] = "none" => ctxOutState'[k] = "none"
          /\ channel[k] = "none" => channel'[k] = "none"
          /\ ChannelOpen(k) => UNCHANGED << isActive, isConnecting >>]_vars

\* C23: when the open event of a session is handled, the input and the
\* output transcript buffer are empty.
C23_BuffersEmptyAtOpen ==
    [][\A k \in Sessions :
          ChannelOpen(k) => (currentInputRef = NoText /\ currentOutputRef = NoText)]_vars

\* C24: a translation response changes the translation of no message other
\* than a tutor message holding the text that was sent for translation.
C24_TranslationOnItsMessage ==
    [][\A i \in DOMAIN translateInFlight :
          TranslateSettled(i, "text") =>
             \A j \in DOMAIN transcription :
                transcription'[j] # transcription[j] =>
                   /\ transcription[j].role = "tutor"
                   /\ transcription[j].text = translateInFlight[i].text]_vars

\* C25: the response of a culture request issued before the latest one
\* changes none of culture data, sources and error once the latest request
\* has settled, and leaves isLoading true while the latest is pending.
C25_LatestRequestWins ==
    [][\A id \in 1 .. MaxFetches, resp \in FetchResponses :
          (FetchSettled(id, resp) /\ id < fetchCalls) =>
             /\ fetchCalls \notin fetchInFlight =>
                   UNCHANGED << cultureData, sources, error >>
             /\ (fetchCalls \in fetchInFlight /\ isLoading) => isLoading']_vars

\* C26: a stored scan translation belongs to the stored result: whenever
\* translation is non-null, result is non-null and the translation was
\* produced for that result.
C26_TranslationOfCurrentResult ==
    translation # NoResult =>
        (result # NoResult /\ translation.from = result.from)

\* C27: while the camera view is closed no camera stream is held: the
\* stream handle is null and every stream acquired by startCamera has had
\* its tracks stopped.
C27_NoStreamWhileClosed ==
    ~showCamera =>
        /\ streamRef = 0
        /\ \A c \in DOMAIN camStreams : camStreams[c] # "live"

\* the expression playbacks in progress: speech requests pending, and the
\* started buffer source
PlaybacksInProgress == Cardinality(ttsInFlight) + (IF ttsPlaying THEN 1 ELSE 0)

\* C28: at most one expression playback is in progress, and one is in
\* progress exactly while playingAudioIdx is non-null; a playExpression
\* call made while playingAudioIdx is non-null changes nothing; and a
\* non-null playingAudioIdx eventually returns to null.
C28_OnePlaybackThenIdle ==
    /\ [](PlaybacksInProgress <= 1 /\ (PlaybacksInProgress = 1 <=> playingAudioIdx # 0))
    /\ [][\A idx \in Expressions, refused \in BOOLEAN :
             (playingAudioIdx # 0 /\ PlayExpression(idx, refused)) => UNCHANGED hubVars]_vars
    /\ (playingAudioIdx # 0) ~> (playingAudioIdx = 0)

C28_Witness ==
    /\ ttsPlaying /\ playingAudioIdx = 2 /\ ttsCalls = 2 /\ ttsInFlight = {}

\* C29: isActive and isConnecting are never both true: the session is idle
\* (both false), connecting (only isConnecting) or active (only isActive),
\* under every interleaving of start requests, stop requests and open,
\* close and error events.
C29_FlagsExclusive == ~(isActive /\ isConnecting)

C29_Witness ==
    /\ isActive /\ ~isConnecting
    /\ closeRequested[1] /\ channel[1] = "open"
    /\ startPc[2] = "awaitMic"

====
